---- MODULE Spec2Model ----
(***************************************************************************)
(* Data-label oxml objects of pptx/oxml/chart/datalabel.py: the `c:dLbls`   *)
(* collection (CT_DLbls), its `c:dLbl` children (CT_DLbl), and the          *)
(* operations that create, look up and remove their children.               *)
(*                                                                         *)
(* An XML element is a record [tag, val, kids]: its qualified tag, its     *)
(* `val` attribute (<<>> when absent, <<s>> when set to the string s) and   *)
(* the sequence of its children in document order.                          *)
(***************************************************************************)
EXTENDS Integers, Sequences, FiniteSets, TLC

VARIABLES
    dLbls,      \* the children of the c:dLbls element, in document order
    before,     \* the children of the c:dLbls element when the last call began
    last,       \* the last call: [op, arg, pos, err]
    requested   \* indices for which get_or_add_dLbl_for_point has returned

vars == <<dLbls, before, last, requested>>

\* Largest point index passed to the lookups.
MaxIdx == 2
\* How many negative point indices are passed to the lookups.
NegIdx == 1

Indices == (0 - NegIdx)..MaxIdx

-----------------------------------------------------------------------------
(* Elements and sequences of children                                      *)

Elem(tag, val, kids) == [tag |-> tag, val |-> val, kids |-> kids]

\* OxmlElement(tag): an empty element of the given tag.
OxmlElement(tag) == Elem(tag, <<>>, <<>>)

Range(s) == {s[k] : k \in 1..Len(s)}

Min(S) == CHOOSE m \in S : \A n \in S : m <= n

\* Python's s[n:]
Slice(s, n) == SubSeq(s, n + 1, Len(s))

\* lxml: kids with e spliced in so that it ends up at position p.
InsertAt(kids, p, e) == SubSeq(kids, 1, p - 1) \o <<e>> \o SubSeq(kids, p, Len(kids))

\* lxml: kids with the child at position p detached.
RemoveAt(kids, p) == SubSeq(kids, 1, p - 1) \o SubSeq(kids, p + 1, Len(kids))

\* kids with the child at position p replaced by e.
ReplaceAt(kids, p, e) == [kids EXCEPT ![p] = e]

\* Positions of the children of the given tag, in document order.
RECURSIVE PositionsFrom(_, _, _)
PositionsFrom(kids, tag, p) ==
    IF p > Len(kids) THEN <<>>
    ELSE IF kids[p].tag = tag THEN <<p>> \o PositionsFrom(kids, tag, p + 1)
    ELSE PositionsFrom(kids, tag, p + 1)

findall(kids, tag) == PositionsFrom(kids, tag, 1)

\* Position of the first child of the given tag, 0 when there is none.
find(kids, tag) ==
    LET ps == findall(kids, tag) IN IF ps = <<>> THEN 0 ELSE ps[1]

Tags(kids) == [k \in 1..Len(kids) |-> kids[k].tag]

-----------------------------------------------------------------------------
(* Attribute codecs: an integer or boolean value and its XML string        *)

Digits == <<"0", "1", "2", "3", "4", "5", "6", "7", "8", "9">>

RECURSIVE str(_)
str(i) ==
    IF i < 0 THEN "-" \o str(0 - i)
    ELSE IF i < 10 THEN Digits[i + 1]
    ELSE str(i \div 10) \o Digits[(i % 10) + 1]

int(s) == CHOOSE i \in Indices \cup {0, 1} : str(i) = s

\* XsdBoolean.convert_to_xml
bool_to_xml(b) == IF b THEN "1" ELSE "0"

\* XsdUnsignedInt.validate: an unsigned int is not negative.
unsignedInt_valid(i) == i >= 0

\* RequiredAttribute setter on c:idx: [ok, elm]; a rejected value raises and
\* leaves the element as it was.
set_val_unsignedInt(elm, i) ==
    IF unsignedInt_valid(i)
    THEN [ok |-> TRUE, elm |-> [elm EXCEPT !.val = <<str(i)>>]]
    ELSE [ok |-> FALSE, elm |-> elm]

-----------------------------------------------------------------------------
(* xmlchemy: placement of a new child by its successor tags                *)

\* Position of the first child whose tag is among the successors, else 0.
first_child_found_in(kids, successors) ==
    LET ps == {p \in 1..Len(kids) : kids[p].tag \in Range(successors)}
    IN  IF ps = {} THEN 0 ELSE Min(ps)

\* [kids, pos]: elm inserted before the first successor, or appended.
insert_element_before(kids, elm, successors) ==
    LET p == first_child_found_in(kids, successors)
    IN  IF p = 0
        THEN [kids |-> Append(kids, elm), pos |-> Len(kids) + 1]
        ELSE [kids |-> InsertAt(kids, p, elm), pos |-> p]

\* ZeroOrOne.get_or_add_x: [kids, pos] of the child of that tag, newly
\* created from `new` and placed by its successors when not present.
get_or_add(kids, tag, new, successors) ==
    LET p == find(kids, tag)
    IN  IF p # 0 THEN [kids |-> kids, pos |-> p]
        ELSE insert_element_before(kids, new, successors)

\* ZeroOrOne._remove_x: every child of that tag detached.
RECURSIVE remove_all(_, _)
remove_all(kids, tag) ==
    IF kids = <<>> THEN <<>>
    ELSE IF Head(kids).tag = tag THEN remove_all(Tail(kids), tag)
    ELSE <<Head(kids)>> \o remove_all(Tail(kids), tag)

-----------------------------------------------------------------------------
(* CT_DLbl                                                                 *)

DLbl_tag_seq ==
    << "c:idx", "c:layout", "c:tx", "c:numFmt", "c:spPr", "c:txPr",
       "c:dLblPos", "c:showLegendKey", "c:showVal", "c:showCatName",
       "c:showSerName", "c:showPercent", "c:showBubbleSize", "c:separator",
       "c:extLst" >>

DLbl_tx_successors == Slice(DLbl_tag_seq, 3)

\* CT_Tx.get_or_add_rich: the c:rich child appended when not present.
Tx_get_or_add_rich(txkids) ==
    get_or_add(txkids, "c:rich", OxmlElement("c:rich"), <<>>)

\* CT_Tx._remove_strRef
Tx_remove_strRef(txkids) == remove_all(txkids, "c:strRef")

\* CT_DLbl.get_or_add_tx on the children of a c:dLbl: [kids, pos].
get_or_add_tx(dkids) ==
    get_or_add(dkids, "c:tx", OxmlElement("c:tx"), DLbl_tx_successors)

\* As get_or_add_tx_rich, without the removal of c:strRef.
get_or_add_tx_rich_keepStrRef(dkids) ==
    LET r  == get_or_add_tx(dkids)
        tx == r.kids[r.pos]
        k2 == Tx_get_or_add_rich(tx.kids).kids
    IN  [kids |-> ReplaceAt(r.kids, r.pos, [tx EXCEPT !.kids = k2]),
         pos  |-> r.pos]

\* CT_DLbl.get_or_add_tx_rich on the children of a c:dLbl: [kids, pos],
\* pos the position of the returned c:tx.
get_or_add_tx_rich(dkids) ==
    LET r  == get_or_add_tx(dkids)
        tx == r.kids[r.pos]
        k1 == Tx_remove_strRef(tx.kids)
        k2 == Tx_get_or_add_rich(k1).kids
    IN  [kids |-> ReplaceAt(r.kids, r.pos, [tx EXCEPT !.kids = k2]),
         pos  |-> r.pos]

\* xpath c:tx[c:rich]: positions of the c:tx children that have a c:rich child.
xpath_tx_rich(dkids) ==
    SelectSeq(findall(dkids, "c:tx"),
              LAMBDA p : find(dkids[p].kids, "c:rich") # 0)

\* As remove_tx_rich, matching any c:tx.
remove_tx_rich_anyTx(dkids) ==
    LET matches == findall(dkids, "c:tx")
    IN  IF matches = <<>> THEN dkids
        ELSE RemoveAt(dkids, matches[1])

\* As remove_tx_rich, with the c:rich detached from its c:tx instead of the
\* c:tx from the data label.
remove_tx_rich_richOnly(dkids) ==
    LET matches == xpath_tx_rich(dkids)
    IN  IF matches = <<>> THEN dkids
        ELSE LET tx == dkids[matches[1]]
             IN  ReplaceAt(dkids, matches[1],
                           [tx EXCEPT !.kids = remove_all(tx.kids, "c:rich")])

\* CT_DLbl.remove_tx_rich on the children of a c:dLbl.
remove_tx_rich(dkids) ==
    LET matches == xpath_tx_rich(dkids)
    IN  IF matches = <<>> THEN dkids
        ELSE RemoveAt(dkids, matches[1])

\* As new_dLbl, with the val of c:showLegendKey left unset.
new_dLbl_flagUnset ==
    Elem("c:dLbl", <<>>,
         << OxmlElement("c:idx"), OxmlElement("c:showLegendKey") >>)

\* CT_DLbl.new_dLbl: a loose c:dLbl with its default subtree.
new_dLbl ==
    Elem("c:dLbl", <<>>,
         << OxmlElement("c:idx"),
            Elem("c:showLegendKey", <<bool_to_xml(FALSE)>>, <<>>) >>)

\* Value of a missing `val` attribute (a c:idx always has one once attached).
NoVal == 0 - (NegIdx + 1)

\* CT_DLbl.idx_val: the integer `val` of the c:idx child.
idx_val(dLbl) ==
    LET v == dLbl.kids[find(dLbl.kids, "c:idx")].val
    IN  IF v = <<>> THEN NoVal ELSE int(v[1])

-----------------------------------------------------------------------------
(* CT_TextBody (the c:txPr subtree)                                        *)

\* CT_TextBody.new_txPr: c:txPr with a:bodyPr, a:lstStyle and a:p/a:pPr/a:defRPr.
new_txPr ==
    Elem("c:txPr", <<>>,
         << OxmlElement("a:bodyPr"),
            OxmlElement("a:lstStyle"),
            Elem("a:p", <<>>,
                 << Elem("a:pPr", <<>>, << OxmlElement("a:defRPr") >>) >>) >>)

\* CT_TextBody.defRPr: the txPr element with a:pPr and a:defRPr present in
\* its first paragraph, each added when missing.
TextBody_defRPr(txPr) ==
    LET pp  == find(txPr.kids, "a:p")
        p   == txPr.kids[pp]
        r1  == get_or_add(p.kids, "a:pPr", OxmlElement("a:pPr"),
                          <<"a:r", "a:br", "a:fld", "a:endParaRPr">>)
        pPr == r1.kids[r1.pos]
        r2  == get_or_add(pPr.kids, "a:defRPr", OxmlElement("a:defRPr"),
                          <<"a:extLst">>)
        p2  == [p EXCEPT !.kids = ReplaceAt(r1.kids, r1.pos,
                                            [pPr EXCEPT !.kids = r2.kids])]
    IN  [txPr EXCEPT !.kids = ReplaceAt(txPr.kids, pp, p2)]

-----------------------------------------------------------------------------
(* CT_DLbls                                                                *)

DLbls_tag_seq ==
    << "c:dLbl", "c:numFmt", "c:spPr", "c:txPr", "c:dLblPos",
       "c:showLegendKey", "c:showVal", "c:showCatName", "c:showSerName",
       "c:showPercent", "c:showBubbleSize", "c:separator",
       "c:showLeaderLines", "c:leaderLines", "c:extLst" >>

DLbls_dLbl_successors == Slice(DLbls_tag_seq, 1)

\* The successors of c:numFmt taken from the slice of c:txPr.
DLbls_numFmt_successors_txPr == Slice(DLbls_tag_seq, 4)

DLbls_numFmt_successors == Slice(DLbls_tag_seq, 2)

DLbls_txPr_successors == Slice(DLbls_tag_seq, 4)

DLbls_dLblPos_successors == Slice(DLbls_tag_seq, 5)

\* As default_xml, with c:showVal off.
default_xml_showValOff ==
    << Elem("c:showLegendKey", <<"0">>, <<>>),
       Elem("c:showVal", <<"0">>, <<>>),
       Elem("c:showCatName", <<"0">>, <<>>),
       Elem("c:showSerName", <<"0">>, <<>>),
       Elem("c:showPercent", <<"0">>, <<>>),
       Elem("c:showBubbleSize", <<"0">>, <<>>) >>

\* CT_DLbls._default_xml, parsed.
default_xml ==
    << Elem("c:showLegendKey", <<"0">>, <<>>),
       Elem("c:showVal", <<"1">>, <<>>),
       Elem("c:showCatName", <<"0">>, <<>>),
       Elem("c:showSerName", <<"0">>, <<>>),
       Elem("c:showPercent", <<"0">>, <<>>),
       Elem("c:showBubbleSize", <<"0">>, <<>>) >>

\* CT_DLbls.new_default: the children of a new default c:dLbls.
new_default == default_xml

\* CT_DLbls.dLbl_lst: positions of the c:dLbl children in document order.
dLbl_lst(kids) == findall(kids, "c:dLbl")

\* CT_DLbls._new_dLbl
DLbls_new_dLbl == new_dLbl

\* CT_DLbls._new_txPr
DLbls_new_txPr == new_txPr

\* CT_DLbls.get_or_add_numFmt: [kids, pos]
get_or_add_numFmt(kids) ==
    get_or_add(kids, "c:numFmt", OxmlElement("c:numFmt"), DLbls_numFmt_successors)

\* CT_DLbls.get_or_add_txPr: [kids, pos]
get_or_add_txPr(kids) ==
    get_or_add(kids, "c:txPr", DLbls_new_txPr, DLbls_txPr_successors)

\* CT_DLbls.get_or_add_dLblPos: [kids, pos]
get_or_add_dLblPos(kids) ==
    get_or_add(kids, "c:dLblPos", OxmlElement("c:dLblPos"), DLbls_dLblPos_successors)

\* As defRPr, with the c:txPr added without looking for one.
defRPr_alwaysAdd(kids) ==
    LET r == insert_element_before(kids, DLbls_new_txPr, DLbls_txPr_successors)
    IN  [kids |-> ReplaceAt(r.kids, r.pos, TextBody_defRPr(r.kids[r.pos])),
         pos  |-> r.pos]

\* CT_DLbls.defRPr: [kids, pos], pos the position of the c:txPr that holds
\* the returned a:defRPr.
defRPr(kids) ==
    LET r == get_or_add_txPr(kids)
    IN  [kids |-> ReplaceAt(r.kids, r.pos, TextBody_defRPr(r.kids[r.pos])),
         pos  |-> r.pos]

\* xpath c:dLbl[c:idx[@val="%d"]] % idx: positions of the c:dLbl children
\* that have a c:idx child whose val attribute is the string of idx.
xpath_dLbl_idx(kids, idx) ==
    SelectSeq(dLbl_lst(kids),
              LAMBDA p : \E c \in Range(kids[p].kids) :
                             c.tag = "c:idx" /\ c.val = <<str(idx)>>)

\* As get_dLbl_for_point, with the xpath c:dLbl[c:idx] that ignores val.
get_dLbl_for_point_anyIdx(kids, idx) ==
    LET matches == dLbl_lst(kids)
    IN  IF matches # <<>> THEN matches[1] ELSE 0

\* CT_DLbls.get_dLbl_for_point: position of the match, 0 for None.
get_dLbl_for_point(kids, idx) ==
    LET matches == xpath_dLbl_idx(kids, idx)
    IN  IF matches # <<>> THEN matches[1] ELSE 0

\* The loose c:dLbl with its c:idx set to idx: [ok, elm].
set_idx_val(dLbl, idx) ==
    LET p == find(dLbl.kids, "c:idx")
        r == set_val_unsignedInt(dLbl.kids[p], idx)
    IN  [ok |-> r.ok, elm |-> [dLbl EXCEPT !.kids = ReplaceAt(dLbl.kids, p, r.elm)]]

\* As place_dLbl, with the comparison of the loop turned round.
place_dLbl_lessThan(kids, elm, idx) ==
    LET lst     == dLbl_lst(kids)
        smaller == {k \in 1..Len(lst) : idx_val(kids[lst[k]]) < idx}
    IN  IF smaller # {}
        THEN LET p == lst[Min(smaller)]
             IN  [kids |-> InsertAt(kids, p, elm), pos |-> p]
        ELSE IF lst # <<>>
        THEN LET p == lst[Len(lst)] + 1
             IN  [kids |-> InsertAt(kids, p, elm), pos |-> p]
        ELSE [kids |-> InsertAt(kids, 1, elm), pos |-> 1]

\* As place_dLbl, with the first c:dLbl appended instead of inserted at 0.
place_dLbl_append(kids, elm, idx) ==
    LET lst    == dLbl_lst(kids)
        bigger == {k \in 1..Len(lst) : idx_val(kids[lst[k]]) > idx}
    IN  IF bigger # {}
        THEN LET p == lst[Min(bigger)]
             IN  [kids |-> InsertAt(kids, p, elm), pos |-> p]
        ELSE IF lst # <<>>
        THEN LET p == lst[Len(lst)] + 1
             IN  [kids |-> InsertAt(kids, p, elm), pos |-> p]
        ELSE [kids |-> Append(kids, elm), pos |-> Len(kids) + 1]

\* As place_dLbl, with the first c:dLbl placed by the successors of c:dLbl.
place_dLbl_bySuccessors(kids, elm, idx) ==
    LET lst    == dLbl_lst(kids)
        bigger == {k \in 1..Len(lst) : idx_val(kids[lst[k]]) > idx}
    IN  IF bigger # {}
        THEN LET p == lst[Min(bigger)]
             IN  [kids |-> InsertAt(kids, p, elm), pos |-> p]
        ELSE IF lst # <<>>
        THEN LET p == lst[Len(lst)] + 1
             IN  [kids |-> InsertAt(kids, p, elm), pos |-> p]
        ELSE insert_element_before(kids, elm, DLbls_dLbl_successors)

\* As place_dLbl, with a c:dLbl of the largest index appended to the
\* collection instead of added after the last c:dLbl.
place_dLbl_appendLast(kids, elm, idx) ==
    LET lst    == dLbl_lst(kids)
        bigger == {k \in 1..Len(lst) : idx_val(kids[lst[k]]) > idx}
    IN  IF bigger # {}
        THEN LET p == lst[Min(bigger)]
             IN  [kids |-> InsertAt(kids, p, elm), pos |-> p]
        ELSE IF lst # <<>>
        THEN [kids |-> Append(kids, elm), pos |-> Len(kids) + 1]
        ELSE [kids |-> InsertAt(kids, 1, elm), pos |-> 1]

\* As place_dLbl, with the c:dLbl of the larger index replaced by the new
\* one instead of preceded by it.
place_dLbl_replace(kids, elm, idx) ==
    LET lst    == dLbl_lst(kids)
        bigger == {k \in 1..Len(lst) : idx_val(kids[lst[k]]) > idx}
    IN  IF bigger # {}
        THEN LET p == lst[Min(bigger)]
             IN  [kids |-> ReplaceAt(kids, p, elm), pos |-> p]
        ELSE IF lst # <<>>
        THEN LET p == lst[Len(lst)] + 1
             IN  [kids |-> InsertAt(kids, p, elm), pos |-> p]
        ELSE [kids |-> InsertAt(kids, 1, elm), pos |-> 1]

\* The loop and the two fallbacks of _insert_dLbl_in_sequence: [kids, pos],
\* elm placed before the first c:dLbl whose index exceeds idx, else after
\* the last c:dLbl, else as the first child.
place_dLbl(kids, elm, idx) ==
    LET lst    == dLbl_lst(kids)
        bigger == {k \in 1..Len(lst) : idx_val(kids[lst[k]]) > idx}
    IN  IF bigger # {}
        THEN LET p == lst[Min(bigger)]
             IN  [kids |-> InsertAt(kids, p, elm), pos |-> p]
        ELSE IF lst # <<>>
        THEN LET p == lst[Len(lst)] + 1
             IN  [kids |-> InsertAt(kids, p, elm), pos |-> p]
        ELSE [kids |-> InsertAt(kids, 1, elm), pos |-> 1]

\* As _insert_dLbl_in_sequence, with the index written to the attribute
\* without going through the c:idx codec.
_insert_dLbl_in_sequence_unchecked(kids, idx) ==
    LET new == DLbls_new_dLbl
        p   == find(new.kids, "c:idx")
        elm == [new EXCEPT !.kids =
                   ReplaceAt(new.kids, p, [new.kids[p] EXCEPT !.val = <<str(idx)>>])]
        r   == place_dLbl(kids, elm, idx)
    IN  [kids |-> r.kids, pos |-> r.pos, err |-> FALSE]

\* As _insert_dLbl_in_sequence, with the new element attached before its
\* index is set.
_insert_dLbl_in_sequence_attachFirst(kids, idx) ==
    LET r   == place_dLbl(kids, DLbls_new_dLbl, idx)
        set == set_idx_val(r.kids[r.pos], idx)
    IN  IF ~set.ok
        THEN [kids |-> r.kids, pos |-> 0, err |-> TRUE]
        ELSE [kids |-> ReplaceAt(r.kids, r.pos, set.elm), pos |-> r.pos, err |-> FALSE]

\* CT_DLbls._insert_dLbl_in_sequence: [kids, pos, err]
_insert_dLbl_in_sequence(kids, idx) ==
    LET set == set_idx_val(DLbls_new_dLbl, idx)
    IN  IF ~set.ok
        THEN [kids |-> kids, pos |-> 0, err |-> TRUE]
        ELSE LET r == place_dLbl(kids, set.elm, idx)
             IN  [kids |-> r.kids, pos |-> r.pos, err |-> FALSE]

\* As get_or_add_dLbl_for_point, without the lookup.
get_or_add_dLbl_for_point_alwaysInsert(kids, idx) ==
    _insert_dLbl_in_sequence(kids, idx)

\* CT_DLbls.get_or_add_dLbl_for_point: [kids, pos, err]
get_or_add_dLbl_for_point(kids, idx) ==
    LET matches == xpath_dLbl_idx(kids, idx)
    IN  IF matches # <<>>
        THEN [kids |-> kids, pos |-> matches[1], err |-> FALSE]
        ELSE _insert_dLbl_in_sequence(kids, idx)

-----------------------------------------------------------------------------
(* Documents the collection is parsed from                                 *)

\* <c:dLbls/>
Doc_empty == <<>>

\* A collection with one data label whose text is a cell reference, and text
\* properties whose paragraph has no a:pPr yet.
Doc_strRef ==
    << Elem("c:dLbl", <<>>,
            << Elem("c:idx", <<"1">>, <<>>),
               Elem("c:tx", <<>>, << OxmlElement("c:strRef") >>),
               Elem("c:showLegendKey", <<"0">>, <<>>),
               Elem("c:showVal", <<"1">>, <<>>) >>),
       Elem("c:txPr", <<>>,
            << OxmlElement("a:bodyPr"), OxmlElement("a:lstStyle"),
               OxmlElement("a:p") >>),
       Elem("c:showLegendKey", <<"0">>, <<>>),
       Elem("c:showVal", <<"1">>, <<>>) >>

Docs == {new_default, Doc_empty, Doc_strRef}

-----------------------------------------------------------------------------
(* The calls                                                               *)

Call(op, arg, pos, err) == [op |-> op, arg |-> arg, pos |-> pos, err |-> err]

Init ==
    /\ dLbls \in Docs
    /\ before = dLbls
    /\ last = Call("parse_xml", 0, 0, FALSE)
    /\ requested = {}

NewDefault ==
    /\ dLbls' = new_default
    /\ before' = dLbls
    /\ last' = Call("new_default", 0, 0, FALSE)
    /\ requested' = {}

GetOrAddDLblForPoint ==
    \E idx \in Indices :
        LET r == get_or_add_dLbl_for_point(dLbls, idx)
        IN  /\ dLbls' = r.kids
            /\ before' = dLbls
            /\ last' = Call("get_or_add_dLbl_for_point", idx, r.pos, r.err)
            /\ requested' = IF r.err THEN requested ELSE requested \cup {idx}

GetDLblForPoint ==
    \E idx \in Indices :
        /\ dLbls' = dLbls
        /\ before' = dLbls
        /\ last' = Call("get_dLbl_for_point", idx, get_dLbl_for_point(dLbls, idx), FALSE)
        /\ UNCHANGED requested

\* A call that returns the child at r.pos of the collection.
Returns(op, r) ==
    /\ dLbls' = r.kids
    /\ before' = dLbls
    /\ last' = Call(op, 0, r.pos, FALSE)
    /\ UNCHANGED requested

GetOrAddNumFmt == Returns("get_or_add_numFmt", get_or_add_numFmt(dLbls))

GetOrAddTxPr == Returns("get_or_add_txPr", get_or_add_txPr(dLbls))

GetOrAddDLblPos == Returns("get_or_add_dLblPos", get_or_add_dLblPos(dLbls))

DefRPr == Returns("defRPr", defRPr(dLbls))

\* A call on the c:dLbl at position k of the collection that leaves it with
\* the children dkids and returns its child at position pos (0 for None).
OnDLbl(op, k, dkids, pos) ==
    /\ dLbls' = ReplaceAt(dLbls, k, [dLbls[k] EXCEPT !.kids = dkids])
    /\ before' = dLbls
    /\ last' = Call(op, k, pos, FALSE)
    /\ UNCHANGED requested

GetOrAddTxRich ==
    \E k \in Range(dLbl_lst(dLbls)) :
        LET r == get_or_add_tx_rich(dLbls[k].kids)
        IN  OnDLbl("get_or_add_tx_rich", k, r.kids, r.pos)

RemoveTxRich ==
    \E k \in Range(dLbl_lst(dLbls)) :
        OnDLbl("remove_tx_rich", k, remove_tx_rich(dLbls[k].kids), 0)

Next ==
    \/ NewDefault
    \/ GetOrAddDLblForPoint
    \/ GetDLblForPoint
    \/ GetOrAddNumFmt
    \/ GetOrAddTxPr
    \/ GetOrAddDLblPos
    \/ DefRPr
    \/ GetOrAddTxRich
    \/ RemoveTxRich

Spec == Init /\ [][Next]_vars

\* <c:dLbls><c:delete val="1"/></c:dLbls>: the labels of the series are
\* deleted. The schema of c:dLbls allows c:delete in place of the formatting
\* children; it is not in the _tag_seq of CT_DLbls.
Doc_delete == << Elem("c:delete", <<"1">>, <<>>) >>

DocsWithDelete == Docs \cup {Doc_delete}

InitWithDelete ==
    /\ dLbls \in DocsWithDelete
    /\ before = dLbls
    /\ last = Call("parse_xml", 0, 0, FALSE)
    /\ requested = {}

\* The calls on a collection parsed from any of the documents, the one with
\* c:delete included.
SpecWithDelete == InitWithDelete /\ [][Next]_vars

-----------------------------------------------------------------------------
(* Properties                                                              *)

\* The c:dLbl children of the collection, in document order.
DLblChildren(kids) == [k \in 1..Len(dLbl_lst(kids)) |-> kids[dLbl_lst(kids)[k]]]

\* The value of the val attribute of the c:idx child of a c:dLbl, as stored.
IdxAttr(dLbl) == dLbl.kids[find(dLbl.kids, "c:idx")].val

\* How many c:dLbl children have the point index i.
CountIdx(kids, i) ==
    Cardinality({k \in 1..Len(DLblChildren(kids)) :
                    IdxAttr(DLblChildren(kids)[k]) = <<str(i)>>})

\* Position of tag in the tag sequence seq, 0 when it is not in it.
Rank(tag, seq) ==
    IF tag \in Range(seq) THEN CHOOSE k \in 1..Len(seq) : seq[k] = tag ELSE 0

\* tags is a subsequence of seq.
IsSubsequence(tags, seq) ==
    /\ \A k \in 1..Len(tags) : Rank(tags[k], seq) # 0
    /\ \A k \in 1..(Len(tags) - 1) : Rank(tags[k], seq) < Rank(tags[k + 1], seq)

\* tags is a subsequence of seq in which the tag rep may repeat.
IsSubsequenceRepeating(tags, seq, rep) ==
    /\ \A k \in 1..Len(tags) : Rank(tags[k], seq) # 0
    /\ \A k \in 1..(Len(tags) - 1) :
          \/ Rank(tags[k], seq) < Rank(tags[k + 1], seq)
          \/ tags[k] = rep /\ tags[k + 1] = rep

\* The last call was op and returned normally.
Returned(op) == last.op = op /\ ~last.err

\* C1: the c:dLbl children of the collection appear in strictly ascending
\* point-index order in document order, whatever the order of the
\* get_or_add_dLbl_for_point calls that created them.
C1_AscendingOrder ==
    LET ds == DLblChildren(dLbls)
    IN  \A j, k \in 1..Len(ds) : j < k => idx_val(ds[j]) < idx_val(ds[k])

\* A c:dLbl was created between two existing ones: the indices were
\* requested out of order and there are three in ascending order.
C1_Witness ==
    /\ Returned("get_or_add_dLbl_for_point")
    /\ dLbls # before
    /\ Len(DLblChildren(dLbls)) = 3
    /\ Len(DLblChildren(before)) = 2
    /\ last.pos = dLbl_lst(dLbls)[2]

\* C2: no two c:dLbl children have the same point index, and every index
\* for which get_or_add_dLbl_for_point has returned has exactly one c:dLbl.
C2_NoDuplicateKeys ==
    /\ \A i \in Indices : CountIdx(dLbls, i) <= 1
    /\ \A i \in requested : CountIdx(dLbls, i) = 1

\* get_or_add_dLbl_for_point called again for an index requested before,
\* with other indices requested as well.
C2_Witness ==
    /\ Returned("get_or_add_dLbl_for_point")
    /\ CountIdx(before, last.arg) = 1
    /\ Cardinality(requested) >= 2
    /\ last.arg \in requested

\* The optional slot a get-or-create call is about.
SlotOf(op) ==
    CASE op = "get_or_add_numFmt"  -> "c:numFmt"
      [] op = "get_or_add_txPr"    -> "c:txPr"
      [] op = "get_or_add_dLblPos" -> "c:dLblPos"
      [] op = "defRPr"             -> "c:txPr"
      [] OTHER                     -> "none"

\* The c:txPr has an a:defRPr in the a:pPr of its first paragraph.
HasDefRPr(txPr) ==
    LET pp == find(txPr.kids, "a:p")
    IN  /\ pp # 0
        /\ LET pk == txPr.kids[pp].kids
               q  == find(pk, "a:pPr")
           IN  q # 0 /\ find(pk[q].kids, "a:defRPr") # 0

\* C3: get-or-create is idempotent. get_or_add_dLbl_for_point(i) with a
\* c:dLbl of index i present, a get-or-create of an optional slot that is
\* present, and defRPr with the c:txPr and its a:defRPr present each return
\* the node that was there and leave the children as they were.
C3_IdempotentGetOrCreate ==
    /\ (last.op = "get_or_add_dLbl_for_point" /\ CountIdx(before, last.arg) >= 1)
          => /\ ~last.err
             /\ dLbls = before
             /\ last.pos \in Range(dLbl_lst(before))
             /\ IdxAttr(before[last.pos]) = <<str(last.arg)>>
    /\ (last.op \in {"get_or_add_numFmt", "get_or_add_txPr", "get_or_add_dLblPos"}
          /\ find(before, SlotOf(last.op)) # 0)
          => /\ dLbls = before
             /\ last.pos = find(before, SlotOf(last.op))
    /\ (last.op = "defRPr" /\ find(before, "c:txPr") # 0
          /\ HasDefRPr(before[find(before, "c:txPr")]))
          => /\ dLbls = before
             /\ last.pos = find(before, "c:txPr")

\* defRPr read a second time, in a collection that has data labels.
C3_Witness ==
    /\ last.op = "defRPr"
    /\ find(before, "c:txPr") # 0
    /\ HasDefRPr(before[find(before, "c:txPr")])
    /\ Len(DLblChildren(before)) >= 2

\* C4: the tags of the children of the collection form a subsequence of the
\* tag sequence of c:dLbls (c:dLbl, the repeatable one, may repeat), and the
\* tags of the children of every c:dLbl form a subsequence of the tag
\* sequence of c:dLbl.
C4_SequenceOrder ==
    /\ IsSubsequenceRepeating(Tags(dLbls), DLbls_tag_seq, "c:dLbl")
    /\ \A k \in 1..Len(DLblChildren(dLbls)) :
          IsSubsequence(Tags(DLblChildren(dLbls)[k].kids), DLbl_tag_seq)

\* c:numFmt created after c:txPr and c:dLblPos, in a collection that has a
\* data label with a c:tx.
C4_Witness ==
    /\ last.op = "get_or_add_numFmt"
    /\ dLbls # before
    /\ find(before, "c:txPr") # 0
    /\ find(before, "c:dLblPos") # 0
    /\ \E k \in 1..Len(DLblChildren(dLbls)) :
          find(DLblChildren(dLbls)[k].kids, "c:tx") # 0

\* How many children of the given tag.
CountTag(kids, tag) == Len(findall(kids, tag))

\* C5: after get_or_add_tx_rich the data label has exactly one c:tx child,
\* which has no c:strRef child and exactly one c:rich child.
C5_RichExcludesStrRef ==
    last.op = "get_or_add_tx_rich" =>
        LET dk == dLbls[last.arg].kids
        IN  /\ ~last.err
            /\ CountTag(dk, "c:tx") = 1
            /\ last.pos = find(dk, "c:tx")
            /\ CountTag(dk[last.pos].kids, "c:strRef") = 0
            /\ CountTag(dk[last.pos].kids, "c:rich") = 1

\* get_or_add_tx_rich on a data label whose c:tx held a c:strRef.
C5_Witness ==
    /\ last.op = "get_or_add_tx_rich"
    /\ LET bk == before[last.arg].kids
       IN  /\ find(bk, "c:tx") # 0
           /\ find(bk[find(bk, "c:tx")].kids, "c:strRef") # 0

C7_NoPartialMutation ==
    /\ last.err => dLbls = before
    /\ \A k \in 1..Len(DLblChildren(dLbls)) : Len(IdxAttr(DLblChildren(dLbls)[k])) = 1

\* A call ended in an error on a collection that has children of both kinds.
C7_Witness ==
    /\ last.err
    /\ Len(DLblChildren(before)) >= 1
    /\ find(before, "c:showVal") # 0

\* C8: a new default collection has exactly six children, the six show/hide
\* flags in their order, c:showVal true and the five others false, and no
\* c:dLbl.
C8_NewDefault ==
    last.op = "new_default" =>
        /\ Len(dLbls) = 6
        /\ Tags(dLbls) = << "c:showLegendKey", "c:showVal", "c:showCatName",
                            "c:showSerName", "c:showPercent", "c:showBubbleSize" >>
        /\ \A k \in 1..Len(dLbls) :
              /\ dLbls[k].val = <<bool_to_xml(dLbls[k].tag = "c:showVal")>>
              /\ dLbls[k].kids = <<>>
        /\ CountTag(dLbls, "c:dLbl") = 0

\* A new default collection made after one that had data labels.
C8_Witness ==
    /\ last.op = "new_default"
    /\ Len(DLblChildren(before)) >= 1

\* The c:tx children of a data label that have a c:rich child.
RichTx(dkids) ==
    {p \in 1..Len(dkids) : dkids[p].tag = "c:tx" /\ CountTag(dkids[p].kids, "c:rich") >= 1}

\* C9: remove_tx_rich on a data label with no c:tx holding a c:rich leaves
\* the children as they were; otherwise it detaches that c:tx and nothing
\* else. It never ends in an error.
C9_RemoveTxRich ==
    last.op = "remove_tx_rich" =>
        LET k  == last.arg
            bk == before[k].kids
        IN  /\ ~last.err
            /\ Len(dLbls) = Len(before)
            /\ \A j \in 1..Len(before) : j # k => dLbls[j] = before[j]
            /\ RichTx(bk) = {} => dLbls = before
            /\ RichTx(bk) # {} =>
                  /\ dLbls[k].kids = RemoveAt(bk, Min(RichTx(bk)))
                  /\ Len(dLbls[k].kids) = Len(bk) - 1

\* remove_tx_rich on a data label whose c:tx holds a c:strRef only.
C9_Witness ==
    /\ last.op = "remove_tx_rich"
    /\ LET bk == before[last.arg].kids
       IN  /\ find(bk, "c:tx") # 0
           /\ RichTx(bk) = {}

\* C10: the c:dLbl children of the collection are contiguous and precede
\* every child of another kind.
C10_DLblsFirst ==
    \A j, k \in 1..Len(dLbls) :
        (j < k /\ dLbls[k].tag = "c:dLbl") => dLbls[j].tag = "c:dLbl"

\* The first c:dLbl created in a collection that has the flags of the
\* default subtree and optional singletons.
C10_Witness ==
    /\ Returned("get_or_add_dLbl_for_point")
    /\ Len(DLblChildren(before)) = 0
    /\ Len(DLblChildren(dLbls)) = 1
    /\ find(before, "c:numFmt") # 0
    /\ find(before, "c:txPr") # 0
    /\ find(before, "c:showBubbleSize") # 0

\* The last call was get_or_add_dLbl_for_point and created a c:dLbl.
Created ==
    /\ Returned("get_or_add_dLbl_for_point")
    /\ CountIdx(before, last.arg) = 0

\* Every child has a tag among the successors of c:dLbl.
AllSuccessors(kids) ==
    \A k \in 1..Len(kids) : kids[k].tag \in Range(DLbls_dLbl_successors)

\* C11 as stated: a c:dLbl created in a collection with no c:dLbl children
\* is placed before the first child whose tag is among the successors of
\* c:dLbl, or appended when there is none.
C11_PlacementRule ==
    (Created /\ dLbl_lst(before) = <<>>) =>
        LET r == insert_element_before(before, dLbls[last.pos], DLbls_dLbl_successors)
        IN  dLbls = r.kids /\ last.pos = r.pos

\* C11: a c:dLbl created in a collection with no c:dLbl children becomes the
\* first child of the collection, the other children following unchanged;
\* that is the place the placement rule gives whenever every existing child
\* has a tag among the successors of c:dLbl.
C11_FirstChild ==
    (Created /\ dLbl_lst(before) = <<>>) =>
        /\ last.pos = 1
        /\ dLbls[1].tag = "c:dLbl"
        /\ Tail(dLbls) = before
        /\ AllSuccessors(before) =>
              LET r == insert_element_before(before, dLbls[1], DLbls_dLbl_successors)
              IN  dLbls = r.kids /\ last.pos = r.pos

\* The first c:dLbl created in a collection whose children are all
\* successors of c:dLbl.
C11_Witness ==
    /\ Created
    /\ dLbl_lst(before) = <<>>
    /\ Len(before) >= 6
    /\ AllSuccessors(before)

Max(S) == CHOOSE m \in S : \A n \in S : m >= n

\* Positions of the c:dLbl children whose point index exceeds i.
Exceeding(kids, i) ==
    {p \in Range(dLbl_lst(kids)) : idx_val(kids[p]) > i}

\* C12: a c:dLbl created in a collection that has c:dLbl children is
\* inserted immediately before the first c:dLbl whose point index exceeds
\* i, and immediately after the last c:dLbl when none does.
C12_PlacedAmongDLbls ==
    (Created /\ dLbl_lst(before) # <<>>) =>
        IF Exceeding(before, last.arg) # {}
        THEN LET p == Min(Exceeding(before, last.arg))
             IN  /\ last.pos = p
                 /\ dLbls = InsertAt(before, p, dLbls[last.pos])
                 /\ dLbls[last.pos + 1] = before[p]
        ELSE LET q == Max(Range(dLbl_lst(before)))
             IN  /\ last.pos = q + 1
                 /\ dLbls = InsertAt(before, q + 1, dLbls[last.pos])
                 /\ dLbls[last.pos - 1] = before[q]
                 /\ \A k \in 1..Len(dLbls) :
                       (k > last.pos) => dLbls[k].tag # "c:dLbl"

\* A c:dLbl of the largest index created after the last c:dLbl, with
\* children of later kinds following.
C12_Witness ==
    /\ Created
    /\ Len(dLbl_lst(before)) >= 2
    /\ Exceeding(before, last.arg) = {}
    /\ find(before, "c:numFmt") # 0
    /\ find(before, "c:showVal") # 0

\* C13: for a non-negative i the node get_or_add_dLbl_for_point(i) returns
\* is a c:dLbl child of the collection with point index i; a created one is
\* c:idx with val i followed by c:showLegendKey with val false and nothing
\* else; no attached c:dLbl has an unset index.
C13_ReturnedDLbl ==
    /\ (last.op = "get_or_add_dLbl_for_point" /\ last.arg >= 0) =>
          /\ ~last.err
          /\ last.pos \in 1..Len(dLbls)
          /\ dLbls[last.pos].tag = "c:dLbl"
          /\ IdxAttr(dLbls[last.pos]) # <<>>
          /\ idx_val(dLbls[last.pos]) = last.arg
          /\ Created =>
                dLbls[last.pos] =
                    Elem("c:dLbl", <<>>,
                         << Elem("c:idx", <<str(last.arg)>>, <<>>),
                            Elem("c:showLegendKey", <<"0">>, <<>>) >>)
    /\ \A k \in 1..Len(DLblChildren(dLbls)) : IdxAttr(DLblChildren(dLbls)[k]) # <<>>

\* A c:dLbl created for a positive index next to one parsed from a document.
C13_Witness ==
    /\ Created
    /\ last.arg >= 1
    /\ Len(dLbl_lst(before)) >= 1
    /\ \E k \in 1..Len(DLblChildren(before)) :
          find(DLblChildren(before)[k].kids, "c:tx") # 0

\* Positions of the c:dLbl children whose point index is i.
WithIdx(kids, i) ==
    {p \in Range(dLbl_lst(kids)) : IdxAttr(kids[p]) # <<>> /\ idx_val(kids[p]) = i}

\* C14: get_dLbl_for_point(idx) returns the first c:dLbl child whose point
\* index is idx, None when there is none, and leaves the children of the
\* collection as they were.
C14_PureLookup ==
    last.op = "get_dLbl_for_point" =>
        /\ ~last.err
        /\ dLbls = before
        /\ last.pos = IF WithIdx(before, last.arg) = {} THEN 0
                      ELSE Min(WithIdx(before, last.arg))

\* get_dLbl_for_point found a c:dLbl that is not the first one.
C14_Witness ==
    /\ last.op = "get_dLbl_for_point"
    /\ last.pos # 0
    /\ Len(dLbl_lst(before)) >= 2
    /\ last.pos # dLbl_lst(before)[1]

\* C15: a get_or_add_dLbl_for_point(i) that finds no c:dLbl of index i adds
\* exactly one child; the children that were there are all still there, in
\* their order and unchanged.
C15_AddsExactlyOne ==
    Created =>
        /\ Len(dLbls) = Len(before) + 1
        /\ last.pos \in 1..Len(dLbls)
        /\ RemoveAt(dLbls, last.pos) = before
        /\ \A i \in Indices : i # last.arg => CountIdx(dLbls, i) = CountIdx(before, i)

\* A c:dLbl created before an existing one in a collection that has
\* children of other kinds.
C15_Witness ==
    /\ Created
    /\ Exceeding(before, last.arg) # {}
    /\ find(before, "c:txPr") # 0
    /\ find(before, "c:showVal") # 0

\* The children of the c:dLbl at position k of kids.
KidsOf(kids, k) == kids[k].kids

\* C16: remove_tx_rich right after get_or_add_tx_rich on the same data label
\* gives back the children the data label had when it had no c:tx; when its
\* c:tx held a c:strRef, it leaves the data label without any c:tx.
C16_RichRoundTrip ==
    [][ ( /\ last.op = "get_or_add_tx_rich"
          /\ last'.op = "remove_tx_rich"
          /\ last'.arg = last.arg )
        => LET k  == last.arg
               bk == KidsOf(before, k)
           IN  /\ find(bk, "c:tx") = 0 => dLbls' = before
               /\ (find(bk, "c:tx") # 0
                     /\ find(bk[find(bk, "c:tx")].kids, "c:strRef") # 0)
                     => /\ find(KidsOf(dLbls', k), "c:tx") = 0
                        /\ dLbls' # before
                        /\ KidsOf(dLbls', k) = RemoveAt(bk, find(bk, "c:tx")) ]_vars

\* remove_tx_rich has detached a c:tx holding a c:rich, which only
\* get_or_add_tx_rich creates.
C16_Witness ==
    /\ last.op = "remove_tx_rich"
    /\ RichTx(KidsOf(before, last.arg)) # {}
    /\ find(KidsOf(dLbls, last.arg), "c:tx") = 0

====
